---- MODULE Spec2Model ----
(***************************************************************************)
(* Trailer dealership application: the contract lifecycle (views.py        *)
(* contract_create / contract_edit / contract_delete, import_excel.py      *)
(* import_sales_persons), the trailer forms (trailer_create, trailer_edit, *)
(* trailer_delete), item_delete and the SIGEX remote-signing coordinator   *)
(* (the contract_sigex handlers with the client of sigex_client.py), and   *)
(* the model matcher of the trailer form (_find_item_for_form), over the   *)
(* store defined in models.py.                                             *)
(*                                                                         *)
(* Every web request runs in its own SQLAlchemy session: objects loaded    *)
(* by a query are a snapshot, attribute writes are flushed at commit as    *)
(* UPDATEs of the columns whose value differs from the loaded one, and     *)
(* flush + commit is one store transaction.                                *)
(***************************************************************************)
EXTENDS Integers, Sequences, FiniteSets, TLC

VARIABLES trailers, contracts, req, sigex, items, trailerRows

vars == <<trailers, contracts, req, sigex, items, trailerRows>>

(* ------------------------------ bounds --------------------------------- *)

\* largest contract id the store hands out in the model
MaxContracts == 2

\* largest value get_next_contract_number may return in the model
MaxNumber == 2

\* largest number of documents / QR operations the remote service creates
MaxRemote == 2

\* largest number of Item rows in the nomenclature
MaxItems == 2

\* largest number of contract rows whose numbers the auto-numbering scans
MaxRows == 3

TrailerIds == {1, 2}

Procs == {1, 2}

NULL == 0

\* contract_number strings are sequences of characters; None is <<>>
NoNumber == <<>>

\* form.contract_number.data: empty, whitespace only, a number
NumberInputs == {<<>>, <<" ">>, <<"1">>}

(* --------------------------- string helpers ---------------------------- *)

Digits == {"0", "1", "2", "3", "4", "5", "6", "7", "8", "9"}

DigitVal(ch) ==
    CASE ch = "0" -> 0 [] ch = "1" -> 1 [] ch = "2" -> 2 [] ch = "3" -> 3
      [] ch = "4" -> 4 [] ch = "5" -> 5 [] ch = "6" -> 6 [] ch = "7" -> 7
      [] ch = "8" -> 8 [] ch = "9" -> 9

DigitChar(d) ==
    CASE d = 0 -> "0" [] d = 1 -> "1" [] d = 2 -> "2" [] d = 3 -> "3"
      [] d = 4 -> "4" [] d = 5 -> "5" [] d = 6 -> "6" [] d = 7 -> "7"
      [] d = 8 -> "8" [] d = 9 -> "9"

IsDigit(ch) == ch \in Digits

IsSpace(ch) == ch = " "

RECURSIVE LStrip(_)
LStrip(s) == IF s # <<>> /\ IsSpace(Head(s)) THEN LStrip(Tail(s)) ELSE s

RECURSIVE RStrip(_)
RStrip(s) ==
    IF s # <<>> /\ IsSpace(s[Len(s)]) THEN RStrip(SubSeq(s, 1, Len(s) - 1)) ELSE s

\* _norm_str: (s or '').strip() or None
NormStrRaw(s) == s

NormStr(s) == RStrip(LStrip(s))

\* ''.join(ch for ch in str(cn) if ch.isdigit())
DigitsOf(s) == SelectSeq(s, IsDigit)

\* int(s) of a non-empty digit string
RECURSIVE StrToInt(_)
StrToInt(s) ==
    IF s = <<>> THEN 0
    ELSE 10 * StrToInt(SubSeq(s, 1, Len(s) - 1)) + DigitVal(s[Len(s)])

\* str(n) of a natural number
RECURSIVE IntToStr(_)
IntToStr(n) ==
    IF n < 10 THEN <<DigitChar(n)>>
    ELSE Append(IntToStr(n \div 10), DigitChar(n % 10))

SetMax(S) == CHOOSE x \in S : \A y \in S : y <= x

(* ------------------------------ the store ------------------------------ *)

Ids(cs) == DOMAIN cs

NoContracts == [c \in {} |-> 0]

\* a SalesContract row as the constructor leaves it (sigex columns NULL)
NewContract(tid, cn) ==
    [ trailer_id         |-> tid,
      contract_number    |-> cn,
      sigex_document_id  |-> NULL,
      sigex_operation_id |-> NULL,
      sigex_last_status  |-> "NULL",
      sigex_last_sign_id |-> NULL ]

\* INTEGER PRIMARY KEY of the sqlite store: one more than the largest id in use
NextId(cs) == IF Ids(cs) = {} THEN 1 ELSE SetMax(Ids(cs)) + 1

Insert(cs, id, row) == [c \in Ids(cs) \cup {id} |-> IF c = id THEN row ELSE cs[c]]

Remove(cs, id) == [c \in Ids(cs) \ {id} |-> cs[c]]

\* SalesContract.query.filter(SalesContract.trailer_id == tid), other than `except`
Referencing(cs, tid, except) ==
    {c \in Ids(cs) : c # except /\ cs[c].trailer_id = tid}

\* uq_sales_contract_trailer: would row `id` with trailer `tid` be a duplicate?
UniqueTrailerNoCheck(cs, id, tid) == TRUE

UniqueTrailerOk(cs, id, tid) ==
    tid = NULL \/ Referencing(cs, tid, id) = {}

\* is_contract_number_unique(number, exclude_id)
IsNumberUniqueNoExclude(cs, number, exclude_id) ==
    number = <<>> \/ {c \in Ids(cs) : cs[c].contract_number = number} = {}

IsContractNumberUnique(cs, number, exclude_id) ==
    IF number = <<>> THEN TRUE
    ELSE {c \in Ids(cs) : cs[c].contract_number = number
                          /\ (exclude_id = NULL \/ c # exclude_id)} = {}

\* the integers get_next_contract_number collects
ExistingNumbers(cs) ==
    {StrToInt(DigitsOf(cs[c].contract_number)) :
        c \in {d \in Ids(cs) : cs[d].contract_number # <<>>
                               /\ DigitsOf(cs[d].contract_number) # <<>>}}

GetNextByCount(cs) == IntToStr(Cardinality(Ids(cs)) + 1)

GetNextContractNumber(cs) ==
    IF ExistingNumbers(cs) = {} THEN <<"1">>
    ELSE IntToStr(SetMax(ExistingNumbers(cs)) + 1)

\* the unit of work writes a column only when its value differs from the loaded one
WriteStatus(ts, t, loaded, new) ==
    IF new # loaded THEN [ts EXCEPT ![t] = new] ELSE ts

(* ----------------------------- requests -------------------------------- *)

\* a request's session: its position, its form inputs and the rows it has loaded
IdleReq ==
    [ pc     |-> "idle",      \* position in the handler
      op     |-> "none",      \* the handler
      cid    |-> NULL,        \* contract_id of the route
      tid    |-> NULL,        \* form.trailer_id.data
      num    |-> <<>>,        \* form.contract_number.data
      cn     |-> <<>>,        \* the normalised / auto-derived number
      ldTid  |-> NULL,        \* contract.trailer_id as loaded
      numCh  |-> FALSE,       \* cn differs from contract.contract_number as loaded
      ldOld  |-> "NONE",      \* old_trailer.status as loaded ("NONE": no such row)
      ldNew  |-> "NONE",      \* (new) trailer.status as loaded
      setOld |-> FALSE,       \* old_trailer.status = 'IN_STOCK' was assigned
      rows   |-> <<>>,        \* sheet rows still to import
      ldDoc  |-> NULL,        \* contract.sigex_document_id as loaded
      ldOp   |-> NULL,        \* contract.sigex_operation_id as loaded
      ldStat |-> "NULL",      \* contract.sigex_last_status as loaded
      ldSign |-> NULL,        \* contract.sigex_last_sign_id as loaded
      rdoc   |-> NULL,        \* document_id = reg["documentId"]
      calls  |-> <<>>,        \* the remote calls the request has made
      out    |-> [id |-> NULL, status |-> "NULL", sign |-> NULL],  \* the reply
      form   |-> <<>>,        \* the trailer form as it is rendered again
      res    |-> "none" ]     \* how the request ended

Free(p) == req[p].pc \in {"idle", "done"}

Begin(p, op) == [IdleReq EXCEPT !.pc = "run", !.op = op]

\* the handler returns: the session is discarded
Finished(op, res) == [IdleReq EXCEPT !.pc = "done", !.op = op, !.res = res]

Return(p, res) == req' = [req EXCEPT ![p] = Finished(req[p].op, res)]

Goto(p, pc) == req' = [req EXCEPT ![p].pc = pc]

NumberTaken(cs, num) ==
    NormStr(num) # <<>> /\ \E c \in Ids(cs) : cs[c].contract_number = NormStr(num)

(* --------------------------- contract_create --------------------------- *)

\* form choices (trailers whose status is not SOLD) and validate_on_submit
CreateForm(p, tid, num) ==
    /\ UNCHANGED <<items, trailerRows>>
    /\ Free(p)
    /\ UNCHANGED <<trailers, contracts, sigex>>
    /\ IF trailers[tid] \in {"NONE", "SOLD"}
       THEN req' = [req EXCEPT ![p] = Finished("create", "invalid_trailer")]
       ELSE IF NumberTaken(contracts, num)
       THEN req' = [req EXCEPT ![p] = Finished("create", "dup_number")]
       ELSE req' = [req EXCEPT ![p] =
                      [Begin(p, "create") EXCEPT !.pc = "c_check", !.tid = tid, !.num = num]]

\* exists: a contract on the trailer the form selects
TrailerTakenNever(cs, tid) == FALSE

TrailerTaken(cs, tid) == Referencing(cs, tid, NULL) # {}

\* GET of the form: form.contract_number.data = get_next_contract_number()
CreateOpen(p) ==
    /\ Free(p)
    /\ UNCHANGED <<trailers, contracts, sigex, items, trailerRows>>
    /\ req' = [req EXCEPT ![p] =
                 [Finished("open", "ok") EXCEPT !.cn = GetNextContractNumber(contracts)]]

\* Trailer.query.get, the contract-exists guard and the SOLD guard
CreateCheck(p) ==
    /\ UNCHANGED <<items, trailerRows>>
    /\ req[p].pc = "c_check"
    /\ UNCHANGED <<trailers, contracts, sigex>>
    /\ LET r == req[p] IN
       IF trailers[r.tid] = "NONE" THEN Return(p, "not_found")
       ELSE IF TrailerTaken(contracts, r.tid) THEN Return(p, "conflict_exists")
       ELSE IF trailers[r.tid] = "SOLD" THEN Return(p, "invalid_sold")
       ELSE req' = [req EXCEPT ![p].ldNew = trailers[r.tid],
                               ![p].cn = NormStr(r.num),
                               ![p].num = <<>>,
                               ![p].pc = IF NormStr(r.num) = <<>> THEN "c_next"
                                         ELSE "c_unique"]

\* cn = get_next_contract_number()
CreateNext(p) ==
    /\ UNCHANGED <<items, trailerRows>>
    /\ req[p].pc = "c_next"
    /\ StrToInt(GetNextContractNumber(contracts)) <= MaxNumber
    /\ UNCHANGED <<trailers, contracts, sigex>>
    /\ req' = [req EXCEPT ![p].cn = GetNextContractNumber(contracts),
                          ![p].pc = "c_unique"]

\* is_contract_number_unique(cn)
CreateUnique(p) ==
    /\ UNCHANGED <<items, trailerRows>>
    /\ req[p].pc = "c_unique"
    /\ UNCHANGED <<trailers, contracts, sigex>>
    /\ IF IsContractNumberUnique(contracts, req[p].cn, NULL)
       THEN Goto(p, "c_commit")
       ELSE Return(p, "dup_number")

\* what a failed flush leaves in the store: rollback() restores both tables
RolledBackKeepsStatus(ts, cs, ts2) == <<ts2, cs>>

RolledBack(ts, cs, ts2) == <<ts, cs>>

\* trailer.status = 'SOLD'; db.session.add(contract); commit / IntegrityError
CreateCommit(p) ==
    /\ UNCHANGED <<items, trailerRows>>
    /\ req[p].pc = "c_commit"
    /\ UniqueTrailerOk(contracts, NextId(contracts), req[p].tid)
          => NextId(contracts) <= MaxContracts
    /\ UNCHANGED sigex
    /\ LET r   == req[p]
           id  == NextId(contracts)
           ts2 == WriteStatus(trailers, r.tid, r.ldNew, "SOLD")
       IN
       IF trailers[r.tid] = "NONE"
       THEN \* the UPDATE of the trailer row matches nothing: StaleDataError
            /\ UNCHANGED <<trailers, contracts>>
            /\ Return(p, "fault")
       ELSE IF UniqueTrailerOk(contracts, id, r.tid)
       THEN /\ trailers' = ts2
            /\ contracts' = Insert(contracts, id, NewContract(r.tid, r.cn))
            /\ Return(p, "ok")
       ELSE /\ trailers' = RolledBack(trailers, contracts, ts2)[1]
            /\ contracts' = RolledBack(trailers, contracts, ts2)[2]
            /\ Return(p, "conflict_commit")

CreateStep(p) ==
    \/ \E tid \in TrailerIds, num \in NumberInputs : CreateForm(p, tid, num)
    \/ CreateCheck(p)
    \/ CreateNext(p)
    \/ CreateUnique(p)
    \/ CreateCommit(p)

(* ---------------------------- contract_edit ---------------------------- *)

\* status of the row contract.trailer loads ("NONE" when there is no such row)
LoadedStatus(ts, tid) == IF tid = NULL THEN "NONE" ELSE ts[tid]

\* exists_other: a different contract on the trailer the form selects
ExistsOtherNever(cs, tid, cid) == FALSE

ExistsOther(cs, tid, cid) == Referencing(cs, tid, cid) # {}

\* the read phase up to the exists_other guard: get_or_404, form choices (every
\* trailer), validate_on_submit, old_trailer, new_trailer, exists_other. The form
\* is built without contract_id, so its number validator excludes no record
EditForm(p, cid, tid, num) ==
    /\ UNCHANGED <<items, trailerRows>>
    /\ Free(p)
    /\ UNCHANGED <<trailers, contracts, sigex>>
    /\ IF cid \notin Ids(contracts)
       THEN req' = [req EXCEPT ![p] = Finished("edit", "not_found")]
       ELSE IF trailers[tid] = "NONE"
       THEN req' = [req EXCEPT ![p] = Finished("edit", "invalid_trailer")]
       ELSE IF NumberTaken(contracts, num)
       THEN req' = [req EXCEPT ![p] = Finished("edit", "dup_number")]
       ELSE IF ExistsOther(contracts, tid, cid)
       THEN req' = [req EXCEPT ![p] = Finished("edit", "conflict_exists")]
       ELSE req' = [req EXCEPT ![p] =
                      [Begin(p, "edit") EXCEPT
                          !.pc = "e_check",
                          !.cid = cid, !.tid = tid,
                          !.cn = NormStr(num),
                          !.ldTid = contracts[cid].trailer_id,
                          !.numCh = (NormStr(num) # contracts[cid].contract_number),
                          !.ldOld = LoadedStatus(trailers, contracts[cid].trailer_id),
                          !.ldNew = trailers[tid]]]

\* is_contract_number_unique(cn, exclude_id=contract.id), then other_cnt of the
\* old trailer when the trailer is being changed
EditCheck(p) ==
    /\ UNCHANGED <<items, trailerRows>>
    /\ req[p].pc = "e_check"
    /\ UNCHANGED <<trailers, contracts, sigex>>
    /\ LET r == req[p] IN
       IF r.cn # <<>> /\ ~IsContractNumberUnique(contracts, r.cn, r.cid)
       THEN Return(p, "dup_number")
       ELSE req' = [req EXCEPT ![p].setOld = /\ r.ldOld # "NONE"
                                             /\ r.ldTid # r.tid
                                             /\ Referencing(contracts, r.ldTid, r.cid) = {},
                               ![p].pc = "e_commit"]

\* the statuses the session flushes: old trailer back to IN_STOCK, new one SOLD
EditStatusesNewOnly(ts, r) == WriteStatus(ts, r.tid, r.ldNew, "SOLD")

EditStatuses(ts, r) ==
    LET ts1 == IF r.setOld /\ ts[r.ldTid] # "NONE"
               THEN WriteStatus(ts, r.ldTid, r.ldOld, "IN_STOCK") ELSE ts
    IN  WriteStatus(ts1, r.tid, r.ldNew, "SOLD")

\* the contract row after the UPDATE of its changed columns
EditedRow(row, r) ==
    [row EXCEPT !.contract_number = IF r.numCh THEN r.cn ELSE @,
                !.trailer_id = IF r.tid # r.ldTid THEN r.tid ELSE @]

\* assignments and commit / IntegrityError
EditCommit(p) ==
    /\ UNCHANGED <<items, trailerRows>>
    /\ req[p].pc = "e_commit"
    /\ UNCHANGED sigex
    /\ LET r   == req[p]
           ts2 == EditStatuses(trailers, r)
       IN
       IF \/ trailers[r.tid] = "NONE"
          \/ (r.setOld /\ trailers[r.ldTid] = "NONE" /\ r.ldOld # "IN_STOCK")
       THEN \* an UPDATE of a trailer row matches nothing: StaleDataError
            /\ UNCHANGED <<trailers, contracts>>
            /\ Return(p, "fault")
       ELSE IF r.cid \notin Ids(contracts)
       THEN \* the contract row is gone: its UPDATE, if any column changed, is stale
            \/ /\ UNCHANGED <<trailers, contracts>>
               /\ Return(p, "fault")
            \/ /\ ~r.numCh /\ r.tid = r.ldTid
               /\ trailers' = ts2
               /\ UNCHANGED contracts
               /\ Return(p, "ok")
       ELSE IF UniqueTrailerOk(contracts, r.cid, EditedRow(contracts[r.cid], r).trailer_id)
       THEN /\ trailers' = ts2
            /\ contracts' = [contracts EXCEPT ![r.cid] = EditedRow(@, r)]
            /\ req' = [req EXCEPT ![p] = [Finished("edit", "ok") EXCEPT !.setOld = r.setOld]]
       ELSE /\ trailers' = RolledBack(trailers, contracts, ts2)[1]
            /\ contracts' = RolledBack(trailers, contracts, ts2)[2]
            /\ Return(p, "conflict_commit")

EditStep(p) ==
    \/ \E cid \in 1..MaxContracts, tid \in TrailerIds, num \in NumberInputs :
          EditForm(p, cid, tid, num)
    \/ EditCheck(p)
    \/ EditCommit(p)

(* --------------------------- contract_delete --------------------------- *)

\* get_or_404 and trailer = contract.trailer
DeleteLoad(p, cid) ==
    /\ UNCHANGED <<items, trailerRows>>
    /\ Free(p)
    /\ UNCHANGED <<trailers, contracts, sigex>>
    /\ IF cid \notin Ids(contracts)
       THEN req' = [req EXCEPT ![p] = Finished("delete", "not_found")]
       ELSE req' = [req EXCEPT ![p] =
                      [Begin(p, "delete") EXCEPT
                          !.pc = "d_commit", !.cid = cid,
                          !.ldTid = contracts[cid].trailer_id,
                          !.ldOld = LoadedStatus(trailers, contracts[cid].trailer_id)]]

\* does contract_delete put the trailer back to IN_STOCK?
DeleteRevertsNever(cs, tid) == FALSE

DeleteReverts(cs, tid) == Referencing(cs, tid, NULL) = {}

\* delete, flush, other_cnt, status, commit: one store transaction
DeleteCommit(p) ==
    /\ UNCHANGED <<items, trailerRows>>
    /\ req[p].pc = "d_commit"
    /\ UNCHANGED sigex
    /\ LET r   == req[p]
           cs2 == Remove(contracts, r.cid)
       IN
       IF r.ldOld # "NONE" /\ DeleteReverts(cs2, r.ldTid)
       THEN IF trailers[r.ldTid] = "NONE" /\ r.ldOld # "IN_STOCK"
            THEN /\ UNCHANGED <<trailers, contracts>>
                 /\ Return(p, "fault")
            ELSE /\ trailers' = WriteStatus(trailers, r.ldTid, r.ldOld, "IN_STOCK")
                 /\ contracts' = cs2
                 /\ Return(p, "ok")
       ELSE /\ UNCHANGED trailers
            /\ contracts' = cs2
            /\ Return(p, "ok")

DeleteStep(p) ==
    \/ \E cid \in 1..MaxContracts : DeleteLoad(p, cid)
    \/ DeleteCommit(p)

(* ------------------------ import_sales_persons ------------------------- *)

\* the sheets the import is run on: rows name trailers by VIN
ImportSheets == {<<1>>, <<2, 2>>, <<1, 2>>}

\* the rows after the first pending insert run inside the flushed transaction:
\* each looks the trailer up, skips it when a contract exists, else adds one
RECURSIVE ImportRows(_, _, _)
ImportRows(ts, cs, rows) ==
    IF rows = <<>> THEN <<ts, cs>>
    ELSE LET t == Head(rows) IN
         IF ts[t] = "NONE" \/ Referencing(cs, t, NULL) # {}
         THEN ImportRows(ts, cs, Tail(rows))
         ELSE ImportRows([ts EXCEPT ![t] = "SOLD"],
                         Insert(cs, NextId(cs), NewContract(t, <<>>)),
                         Tail(rows))

ImportStart(p, sheet) ==
    /\ UNCHANGED <<items, trailerRows>>
    /\ Free(p)
    /\ UNCHANGED <<trailers, contracts, sigex>>
    /\ req' = [req EXCEPT ![p] = [Begin(p, "import") EXCEPT !.pc = "i_row", !.rows = sheet]]

\* one row read before anything is pending: trailer lookup and existing check
ImportRow(p) ==
    /\ UNCHANGED <<items, trailerRows>>
    /\ req[p].pc = "i_row"
    /\ UNCHANGED <<trailers, contracts, sigex>>
    /\ LET r == req[p]
           t == Head(r.rows)
       IN
       IF trailers[t] = "NONE" \/ Referencing(contracts, t, NULL) # {}
       THEN IF Tail(r.rows) = <<>> THEN Return(p, "ok")
            ELSE req' = [req EXCEPT ![p].rows = Tail(r.rows)]
       ELSE req' = [req EXCEPT ![p].tid = t, ![p].ldNew = trailers[t],
                               ![p].rows = Tail(r.rows), ![p].pc = "i_commit"]

\* autoflush of the pending contract, the remaining rows, commit
ImportCommit(p) ==
    /\ UNCHANGED <<items, trailerRows>>
    /\ req[p].pc = "i_commit"
    /\ UNCHANGED sigex
    /\ LET r    == req[p]
           id   == NextId(contracts)
           ts2  == WriteStatus(trailers, r.tid, r.ldNew, "SOLD")
           cs2  == Insert(contracts, id, NewContract(r.tid, <<>>))
           rest == ImportRows(ts2, cs2, r.rows)
       IN
       /\ SetMax(Ids(rest[2])) <= MaxContracts
       /\ IF trailers[r.tid] # "NONE" /\ UniqueTrailerOk(contracts, id, r.tid)
          THEN /\ trailers' = rest[1]
               /\ contracts' = rest[2]
               /\ Return(p, "ok")
          ELSE \* IntegrityError / StaleDataError ends the script, nothing is committed
               /\ UNCHANGED <<trailers, contracts>>
               /\ Return(p, "fault")

ImportStep(p) ==
    \/ \E sheet \in ImportSheets : ImportStart(p, sheet)
    \/ ImportRow(p)
    \/ ImportCommit(p)

(* ---------------------------- model matcher ---------------------------- *)

\* a form field without data (None) where 0 is a value of its own
Unset == -1

\* nullable Boolean columns of Item
Tri == {"true", "false", "unknown"}

\* an Item row; a string column that is NULL is "", an integer column NULL
BaseItem ==
    [ item_type        |-> "TRAILER",
      is_active        |-> TRUE,
      size_body        |-> "A",
      axle_count       |-> 2,
      wheel_radius     |-> "R13",
      board_height_mm  |-> 5,
      has_tent         |-> "false",
      tent_hight_mm    |-> NULL,
      has_jockey_wheel |-> "true" ]

\* the rows the nomenclature is made of in the model
ItemModels ==
    {[BaseItem EXCEPT !.has_tent = ht, !.tent_hight_mm = th] :
        ht \in Tri, th \in {NULL, 60}}
    \cup {[BaseItem EXCEPT !.has_tent = "true", !.tent_hight_mm = 40],
          [BaseItem EXCEPT !.is_active = FALSE],
          [BaseItem EXCEPT !.item_type = "COMPONENT"],
          [BaseItem EXCEPT !.size_body = "B"],
          [BaseItem EXCEPT !.axle_count = 1],
          [BaseItem EXCEPT !.wheel_radius = "R14"],
          [BaseItem EXCEPT !.board_height_mm = 7],
          [BaseItem EXCEPT !.has_jockey_wheel = "false"],
          [BaseItem EXCEPT !.has_jockey_wheel = "unknown"]}

\* the Item table in rowid order
Catalogs == UNION {[1..n -> ItemModels] : n \in 0..MaxItems}

\* the data of a submitted TrailerCreateForm
Forms ==
    [ size_body        : {"", "A"},
      axle_count       : {Unset, 2},
      wheel_radius     : {"", "R13"},
      board_height_mm  : {<<>>, <<"5">>, <<"x">>},
      has_jockey_wheel : {Unset, 0, 1},
      tent_height_mm   : {Unset, 0, 60} ]

\* _fill_trailer_form_choices: tent_height_mm defaults to 0 ("no tent"),
\* has_jockey_wheel to 1
FillDefaults(form) ==
    [form EXCEPT !.tent_height_mm = IF @ = Unset THEN 0 ELSE @,
                 !.has_jockey_wheel = IF @ = Unset THEN 1 ELSE @]

\* truth value of an integer form field: None and 0 are false
Truthy(x) == x # Unset /\ x # 0

\* int(form.board_height_mm.data) raises ValueError
BadInt(s) == \E i \in 1..Len(s) : ~IsDigit(s[i])

\* Item.query.filter_by(item_type='TRAILER', is_active=True)
FixedFilters(it) == it.item_type = "TRAILER" /\ it.is_active

\* the filters added for the fields that hold data
PlainFiltersSkipAxle(it, form) ==
    /\ form.size_body # "" => it.size_body = form.size_body
    /\ form.wheel_radius # "" => it.wheel_radius = form.wheel_radius
    /\ form.board_height_mm # <<>> =>
          (it.board_height_mm # NULL
             /\ it.board_height_mm = StrToInt(form.board_height_mm))

PlainFiltersAlways(it, form) ==
    /\ it.size_body = form.size_body
    /\ Truthy(form.axle_count) => it.axle_count = form.axle_count
    /\ form.wheel_radius # "" => it.wheel_radius = form.wheel_radius
    /\ form.board_height_mm # <<>> =>
          (it.board_height_mm # NULL
             /\ it.board_height_mm = StrToInt(form.board_height_mm))

PlainFilters(it, form) ==
    /\ form.size_body # "" => it.size_body = form.size_body
    /\ Truthy(form.axle_count) => it.axle_count = form.axle_count
    /\ form.wheel_radius # "" => it.wheel_radius = form.wheel_radius
    /\ form.board_height_mm # <<>> =>
          (it.board_height_mm # NULL
             /\ it.board_height_mm = StrToInt(form.board_height_mm))

\* Item.has_jockey_wheel == (has_jw == 1); a NULL column equals nothing
JockeyFilterNullAsNo(it, has_jw) ==
    IF has_jw = 1 THEN it.has_jockey_wheel = "true" ELSE it.has_jockey_wheel # "true"

JockeyFilter(it, has_jw) ==
    it.has_jockey_wheel = (IF has_jw = 1 THEN "true" ELSE "false")

\* tent_h == 0: has_tent == False or tent_hight_mm IS NULL;
\* otherwise has_tent == True and tent_hight_mm == tent_h
TentFilterHeightOnly(it, tent_h) ==
    IF tent_h = 0
    THEN it.has_tent = "false" \/ it.tent_hight_mm = NULL
    ELSE it.tent_hight_mm # NULL /\ it.tent_hight_mm = tent_h

TentFilter(it, tent_h) ==
    IF tent_h = 0
    THEN it.has_tent = "false" \/ it.tent_hight_mm = NULL
    ELSE it.has_tent = "true" /\ it.tent_hight_mm # NULL /\ it.tent_hight_mm = tent_h

\* the rows of q when q.first() runs
Candidates(cat, form) ==
    {i \in DOMAIN cat :
        /\ FixedFilters(cat[i])
        /\ PlainFilters(cat[i], form)
        /\ JockeyFilter(cat[i], form.has_jockey_wheel)
        /\ TentFilter(cat[i], form.tent_height_mm)}

NoMatch == 0

\* the request of the trailer form as far as the matcher goes
Found(sent, form, item, res) ==
    [pc |-> "done", op |-> "find", sent |-> sent, form |-> form,
     item |-> item, res |-> res]

\* _fill_trailer_form_choices(form); item, error = _find_item_for_form(form).
\* q.first() has no ORDER BY: any row of q may come first
FindItemForForm(p, sent) ==
    /\ req[p].pc = "idle"
    /\ UNCHANGED <<trailers, contracts, sigex, items, trailerRows>>
    /\ LET form == FillDefaults(sent) IN
       IF BadInt(form.board_height_mm)
       THEN req' = [req EXCEPT ![p] = Found(sent, form, NoMatch, "bad_board")]
       ELSE IF Candidates(items, form) = {}
       THEN req' = [req EXCEPT ![p] = Found(sent, form, NoMatch, "no_match")]
       ELSE \E i \in Candidates(items, form) :
               req' = [req EXCEPT ![p] = Found(sent, form, i, "ok")]

(* ---------------------------- trailer forms ---------------------------- *)

\* TrailerCreateForm.status choices
StatusChoices == {"IN_STOCK", "SOLD"}

\* Warehouse ids, the choices of form.warehouse_id
Warehouses == {1, 2}

\* the columns of a Trailer row besides status; NoTrailer where there is no row
NoTrailer ==
    [vin |-> "", warehouse_id |-> NULL, manufacture_date |-> NULL, item_id |-> NULL]

\* vin, warehouse_id and manufacture_date as a trailer form submits them
Cards ==
    { [vin |-> "",   warehouse_id |-> 1, manufacture_date |-> NULL],
      [vin |-> "V1", warehouse_id |-> 1, manufacture_date |-> NULL],
      [vin |-> "V2", warehouse_id |-> 2, manufacture_date |-> 1] }

\* the row of trailer t in the installations the specifications start from
InitRow(t) ==
    [vin |-> IF t = 1 THEN "V1" ELSE "V2", warehouse_id |-> t,
     manufacture_date |-> IF t = 1 THEN NULL ELSE 1, item_id |-> 1]

RowsFor(ts) == [t \in TrailerIds |-> IF ts[t] = "NONE" THEN NoTrailer ELSE InitRow(t)]

\* the active TRAILER items, from which _fill_trailer_form_choices takes the
\* choices of the characteristics
ChoiceItems(cat) == {cat[i] : i \in {j \in DOMAIN cat : FixedFilters(cat[j])}}

\* form.validate_on_submit(): DataRequired and "a valid choice" on every field
\* but tent_height_mm (Optional; 0 is always a choice); DataRequired rejects the
\* has_jockey_wheel choice 0
FormValid(cat, card, form) ==
    /\ card.vin # ""
    /\ card.warehouse_id \in Warehouses
    /\ form.size_body # ""
    /\ \E it \in ChoiceItems(cat) : it.size_body = form.size_body
    /\ Truthy(form.axle_count)
    /\ \E it \in ChoiceItems(cat) : it.axle_count = form.axle_count
    /\ form.wheel_radius # ""
    /\ \E it \in ChoiceItems(cat) : it.wheel_radius = form.wheel_radius
    /\ form.board_height_mm # <<>>
    /\ \E it \in ChoiceItems(cat) :
          it.board_height_mm # NULL /\ IntToStr(it.board_height_mm) = form.board_height_mm
    /\ \/ form.tent_height_mm = 0
       \/ \E it \in ChoiceItems(cat) :
             it.tent_hight_mm # NULL /\ it.tent_hight_mm = form.tent_height_mm
    /\ form.has_jockey_wheel = 1

\* item, error = _find_item_for_form(form): the error, "none" when an item is found
MatchError(cat, form) ==
    IF BadInt(form.board_height_mm) THEN "bad_board"
    ELSE IF Candidates(cat, form) = {} THEN "no_match"
    ELSE "none"

\* Trailer.vin is unique: a row other than `except` carries the vin
VinTaken(rows, vin, except) ==
    \E u \in TrailerIds \ {except} : rows[u].vin = vin /\ rows[u] # NoTrailer

\* the handler returns; the form it rendered keeps the submitted data
TrailerDone(op, res, form) == [Finished(op, res) EXCEPT !.form = form]

\* trailer_create: validate, match, Trailer(...), add, commit. The error of the
\* matcher is flashed and the form rendered again; a duplicate VIN fails the
\* INSERT. The new row takes an id that is free
TrailerCreate(p, card, sent, status) ==
    /\ Free(p)
    /\ UNCHANGED <<contracts, sigex, items>>
    /\ LET form == FillDefaults(sent) IN
       IF ~FormValid(items, card, form)
       THEN /\ UNCHANGED <<trailers, trailerRows>>
            /\ req' = [req EXCEPT ![p] = TrailerDone("trailer_create", "invalid", form)]
       ELSE IF MatchError(items, form) # "none"
       THEN /\ UNCHANGED <<trailers, trailerRows>>
            /\ req' = [req EXCEPT ![p] = TrailerDone("trailer_create", MatchError(items, form), form)]
       ELSE IF VinTaken(trailerRows, card.vin, NULL)
       THEN /\ UNCHANGED <<trailers, trailerRows>>
            /\ req' = [req EXCEPT ![p] = TrailerDone("trailer_create", "fault", form)]
       ELSE \E i \in Candidates(items, form), t \in {u \in TrailerIds : trailers[u] = "NONE"} :
               /\ trailers' = [trailers EXCEPT ![t] = status]
               /\ trailerRows' = [trailerRows EXCEPT ![t] =
                                    [vin |-> card.vin, warehouse_id |-> card.warehouse_id,
                                     manufacture_date |-> card.manufacture_date,
                                     item_id |-> i]]
               /\ req' = [req EXCEPT ![p] = TrailerDone("trailer_create", "ok", form)]

\* the columns trailer_edit has assigned when it returns: none when the matcher
\* gave an error, since the assignments follow the check of the error
EditedTrailerEager(row, card, i, error) ==
    [vin |-> card.vin, warehouse_id |-> card.warehouse_id,
     manufacture_date |-> card.manufacture_date,
     item_id |-> IF error = "none" THEN i ELSE row.item_id]

EditedTrailer(row, card, i, error) ==
    IF error # "none" THEN row
    ELSE [vin |-> card.vin, warehouse_id |-> card.warehouse_id,
          manufacture_date |-> card.manufacture_date, item_id |-> i]

\* trailer_edit: get_or_404, validate, match, assign vin, warehouse, date,
\* status and item, commit
TrailerEdit(p, t, card, sent, status) ==
    /\ Free(p)
    /\ UNCHANGED <<contracts, sigex, items>>
    /\ LET form == FillDefaults(sent) IN
       IF trailers[t] = "NONE"
       THEN /\ UNCHANGED <<trailers, trailerRows>>
            /\ req' = [req EXCEPT ![p] = TrailerDone("trailer_edit", "not_found", form)]
       ELSE IF ~FormValid(items, card, form)
       THEN /\ UNCHANGED <<trailers, trailerRows>>
            /\ req' = [req EXCEPT ![p] = TrailerDone("trailer_edit", "invalid", form)]
       ELSE IF MatchError(items, form) # "none"
       THEN /\ UNCHANGED trailers
            /\ trailerRows' = [trailerRows EXCEPT ![t] =
                                 EditedTrailer(@, card, NoMatch, MatchError(items, form))]
            /\ req' = [req EXCEPT ![p] = TrailerDone("trailer_edit", MatchError(items, form), form)]
       ELSE IF VinTaken(trailerRows, card.vin, t)
       THEN /\ UNCHANGED <<trailers, trailerRows>>
            /\ req' = [req EXCEPT ![p] = TrailerDone("trailer_edit", "fault", form)]
       ELSE \E i \in Candidates(items, form) :
               /\ trailers' = [trailers EXCEPT ![t] = status]
               /\ trailerRows' = [trailerRows EXCEPT ![t] = EditedTrailer(@, card, i, "none")]
               /\ req' = [req EXCEPT ![p] = TrailerDone("trailer_edit", "ok", form)]

\* if trailer.sales_contracts: the delete is refused
TrailerHeldNever(cs, t) == FALSE

TrailerHeld(cs, t) == Referencing(cs, t, NULL) # {}

\* trailer_delete: get_or_404; a manager (of warehouse `manager`, NULL for the
\* other roles) has no access to a trailer of another warehouse; refused while
\* trailer.sales_contracts is non-empty
TrailerDelete(p, t, manager) ==
    /\ Free(p)
    /\ UNCHANGED <<contracts, sigex, items>>
    /\ IF trailers[t] = "NONE"
       THEN /\ UNCHANGED <<trailers, trailerRows>>
            /\ req' = [req EXCEPT ![p] = Finished("trailer_delete", "not_found")]
       ELSE IF manager # NULL /\ trailerRows[t].warehouse_id # manager
       THEN /\ UNCHANGED <<trailers, trailerRows>>
            /\ req' = [req EXCEPT ![p] = Finished("trailer_delete", "forbidden")]
       ELSE IF TrailerHeld(contracts, t)
       THEN /\ UNCHANGED <<trailers, trailerRows>>
            /\ req' = [req EXCEPT ![p] = Finished("trailer_delete", "refused")]
       ELSE /\ trailers' = [trailers EXCEPT ![t] = "NONE"]
            /\ trailerRows' = [trailerRows EXCEPT ![t] = NoTrailer]
            /\ req' = [req EXCEPT ![p] = Finished("trailer_delete", "ok")]

\* the submissions of the trailer forms with the characteristics drawn from forms
TrailerStep(p, forms) ==
    \/ \E card \in Cards, sent \in forms, status \in StatusChoices :
          TrailerCreate(p, card, sent, status)
    \/ \E t \in TrailerIds, card \in Cards, sent \in forms, status \in StatusChoices :
          TrailerEdit(p, t, card, sent, status)
    \/ \E t \in TrailerIds, manager \in {NULL} \cup Warehouses : TrailerDelete(p, t, manager)

\* if item.trailers: the delete is refused
ItemHeldNever(rows, i) == FALSE

ItemHeld(rows, i) == \E t \in TrailerIds : rows[t] # NoTrailer /\ rows[t].item_id = i

\* item_delete: get_or_404, refused while item.trailers is non-empty
ItemDelete(p, i) ==
    /\ Free(p)
    /\ UNCHANGED <<trailers, trailerRows, contracts, sigex>>
    /\ IF i \notin DOMAIN items
       THEN /\ UNCHANGED items
            /\ req' = [req EXCEPT ![p] = Finished("item_delete", "not_found")]
       ELSE IF ItemHeld(trailerRows, i)
       THEN /\ UNCHANGED items
            /\ req' = [req EXCEPT ![p] = Finished("item_delete", "refused")]
       ELSE /\ items' = [j \in DOMAIN items \ {i} |-> items[j]]
            /\ req' = [req EXCEPT ![p] = Finished("item_delete", "ok")]

(* ------------------------- remote signing ------------------------------ *)

\* os.getenv(name): whether the variable is set, and its characters
EnvAbsent == [set |-> FALSE, chars |-> <<>>]

EnvOf(chars) == [set |-> TRUE, chars |-> chars]

\* (os.getenv(name) or "").strip()
EnvStripped(v) == NormStr(IF v.set THEN v.chars ELSE <<>>)

\* values of SIGEX_MTLS_CRT and SIGEX_MTLS_KEY: unset, empty, blank, a path
EnvValues == {EnvAbsent, EnvOf(<<>>), EnvOf(<<" ">>), EnvOf(<<"p">>)}

\* _cert_tuple returns the pair; otherwise it raises SigexNotConfigured
ConfiguredEither(cfg) == EnvStripped(cfg.crt) # <<>> \/ EnvStripped(cfg.key) # <<>>

Configured(cfg) == EnvStripped(cfg.crt) # <<>> /\ EnvStripped(cfg.key) # <<>>

\* the remote signing service (documents and QR operations it has created)
\* and the environment of the client
NoRemote == [docs |-> 0, ops |-> 0, crt |-> EnvOf(<<"p">>), key |-> EnvOf(<<"p">>)]

\* signId values the service hands out
SignIds == {1, 2}

\* status values of GET egovOperation; "NULL" is a reply without the field
RemoteStatuses == {"new", "done"}

NoOut == [id |-> NULL, status |-> "NULL", sign |-> NULL]

\* the handler returns or aborts; the reply and the calls it made stay visible
FinishedSig(r, res, out) ==
    [IdleReq EXCEPT !.pc = "done", !.op = r.op, !.cid = r.cid, !.calls = r.calls,
                    !.res = res, !.out = out]

\* SalesContract.query.get_or_404: the session's copy of the row
Loaded(op, cid, row) ==
    [Begin(0, op) EXCEPT !.cid = cid,
                         !.ldDoc = row.sigex_document_id,
                         !.ldOp = row.sigex_operation_id,
                         !.ldStat = row.sigex_last_status,
                         !.ldSign = row.sigex_last_sign_id]

\* the unit of work writes a column only when the assigned value differs from
\* the loaded one
Col(cur, loaded, new) == IF new # loaded THEN new ELSE cur

Called(r, what) == [r EXCEPT !.calls = Append(r.calls, what)]

\* cert=_cert_tuple() raised while the arguments of the request were built:
\* nothing is sent, the exception ends the handler before any assignment
NotConfigured(p) ==
    /\ UNCHANGED <<trailers, contracts, sigex>>
    /\ req' = [req EXCEPT ![p] = FinishedSig(req[p], "not_configured", NoOut)]

(* contract_sigex_preregister *)

\* if contract.sigex_document_id: return it
PreregAlwaysRegisters(row) == FALSE

PreregStored(row) == row.sigex_document_id # NULL

PreregLoad(p, cid) ==
    /\ UNCHANGED <<items, trailerRows>>
    /\ Free(p)
    /\ UNCHANGED <<trailers, contracts, sigex>>
    /\ IF cid \notin Ids(contracts)
       THEN req' = [req EXCEPT ![p] = FinishedSig(Loaded("prereg", cid, NewContract(0, <<>>)),
                                                  "not_found", NoOut)]
       ELSE LET r == Loaded("prereg", cid, contracts[cid]) IN
            IF PreregStored(contracts[cid])
            THEN req' = [req EXCEPT ![p] =
                           FinishedSig(r, "ok", [NoOut EXCEPT !.id = r.ldDoc])]
            ELSE req' = [req EXCEPT ![p] = [r EXCEPT !.pc = "p_register"]]

\* reg = sigex_post_json("/api", payload); document_id = reg["documentId"]
PreregRegister(p) ==
    /\ UNCHANGED <<items, trailerRows>>
    /\ req[p].pc = "p_register"
    /\ LET r == Called(req[p], "register") IN
       IF ~Configured(sigex) THEN NotConfigured(p) ELSE
       \/ \* transport or HTTP failure; the service may have registered all the same
          /\ \/ UNCHANGED sigex
             \/ /\ sigex.docs < MaxRemote
                /\ sigex' = [sigex EXCEPT !.docs = @ + 1]
          /\ req' = [req EXCEPT ![p] = FinishedSig(r, "upstream_error", NoOut)]
          /\ UNCHANGED <<trailers, contracts>>
       \/ \* a reply without documentId: KeyError
          /\ sigex.docs < MaxRemote
          /\ sigex' = [sigex EXCEPT !.docs = @ + 1]
          /\ req' = [req EXCEPT ![p] = FinishedSig(r, "malformed", NoOut)]
          /\ UNCHANGED <<trailers, contracts>>
       \/ /\ sigex.docs < MaxRemote
          /\ sigex' = [sigex EXCEPT !.docs = @ + 1]
          /\ req' = [req EXCEPT ![p] = [r EXCEPT !.rdoc = sigex.docs + 1, !.pc = "p_upload"]]
          /\ UNCHANGED <<trailers, contracts>>

\* the contract row when the handler ends: contract.sigex_document_id =
\* document_id is assigned and committed only after the body upload returned
PreregRowBeforeUpload(row, r, uploaded) ==
    [row EXCEPT !.sigex_document_id = Col(@, r.ldDoc, r.rdoc)]

PreregRow(row, r, uploaded) ==
    IF uploaded THEN [row EXCEPT !.sigex_document_id = Col(@, r.ldDoc, r.rdoc)]
    ELSE row

\* _contract_pdf_bytes, sigex_post_octet, then the document id is stored
PreregUpload(p) ==
    /\ UNCHANGED <<items, trailerRows>>
    /\ req[p].pc = "p_upload"
    /\ \/ \* WeasyPrint is not available: RuntimeError before the upload
          /\ req' = [req EXCEPT ![p] = FinishedSig(req[p], "render_error", NoOut)]
          /\ UNCHANGED <<sigex, trailers, contracts>>
       \/ ~Configured(sigex) /\ NotConfigured(p)
       \/ /\ Configured(sigex)
          /\ UNCHANGED <<sigex, trailers>>
          /\ \E uploaded \in BOOLEAN :
             LET r == Called(req[p], "upload") IN
             IF r.cid \in Ids(contracts)
             THEN /\ contracts' = [contracts EXCEPT ![r.cid] = PreregRow(@, r, uploaded)]
                  /\ req' = [req EXCEPT ![p] =
                               IF uploaded
                               THEN FinishedSig(r, "ok", [NoOut EXCEPT !.id = r.rdoc])
                               ELSE FinishedSig(r, "upstream_error", NoOut)]
             ELSE /\ UNCHANGED contracts
                  /\ req' = [req EXCEPT ![p] =
                               FinishedSig(r, IF uploaded THEN "fault" ELSE "upstream_error",
                                           NoOut)]

PreregStep(p) ==
    \/ \E cid \in 1..MaxContracts : PreregLoad(p, cid)
    \/ PreregRegister(p)
    \/ PreregUpload(p)

(* contract_sigex_add_org_signature, _start_qr, _qr_status, _ddc *)

\* if not contract.sigex_document_id: abort(400)
NeedsDocument(row) == row.sigex_document_id # NULL

\* if not (contract.sigex_document_id and contract.sigex_operation_id): abort(400)
PollReadyDocOnly(row) == row.sigex_document_id # NULL

PollReady(row) == row.sigex_document_id # NULL /\ row.sigex_operation_id # NULL

Ready(op, row) == IF op = "poll" THEN PollReady(row) ELSE NeedsDocument(row)

\* get_or_404 and the precondition of the step; add_org_signature also wants
\* a signature in the request body
SigLoad(p, op, cid, hasSignature) ==
    /\ UNCHANGED <<items, trailerRows>>
    /\ Free(p)
    /\ UNCHANGED <<trailers, contracts, sigex>>
    /\ IF cid \notin Ids(contracts)
       THEN req' = [req EXCEPT ![p] = FinishedSig(Loaded(op, cid, NewContract(0, <<>>)),
                                                  "not_found", NoOut)]
       ELSE LET r == Loaded(op, cid, contracts[cid]) IN
            IF ~Ready(op, contracts[cid])
            THEN req' = [req EXCEPT ![p] = FinishedSig(r, "precondition", NoOut)]
            ELSE IF op = "addorg" /\ ~hasSignature
            THEN req' = [req EXCEPT ![p] = FinishedSig(r, "bad_request", NoOut)]
            ELSE req' = [req EXCEPT ![p] = [r EXCEPT !.pc = "call"]]

\* what a remote call gives the handler: ok is FALSE when requests raised
\* (timeout, connection error, raise_for_status); a field the reply lacks is NULL
Reply(ok, id, status, sign) == [ok |-> ok, id |-> id, status |-> status, sign |-> sign]

Failed == Reply(FALSE, NULL, "NULL", NULL)

\* the handler ends: commit of the row it assigned to, or the exception
Finish(p, r, reply, row2, out) ==
    /\ UNCHANGED trailers
    /\ IF r.cid \in Ids(contracts)
       THEN /\ contracts' = [contracts EXCEPT ![r.cid] = row2]
            /\ req' = [req EXCEPT ![p] =
                         FinishedSig(r, IF reply.ok THEN "ok" ELSE "upstream_error", out)]
       ELSE /\ UNCHANGED contracts
            /\ req' = [req EXCEPT ![p] =
                         FinishedSig(r, IF reply.ok THEN "fault" ELSE "upstream_error", out)]

OutOf(reply) == [id |-> reply.id, status |-> reply.status, sign |-> reply.sign]

\* res = sigex_post_json(...); sigex_last_sign_id = res.get("signId");
\* sigex_last_status = "org_signed"; commit
AddOrgRow(row, r, reply) ==
    IF ~reply.ok THEN row
    ELSE [row EXCEPT !.sigex_last_sign_id = Col(@, r.ldSign, reply.sign),
                     !.sigex_last_status = Col(@, r.ldStat, "org_signed")]

AddOrgCall(p) ==
    /\ UNCHANGED <<items, trailerRows>>
    /\ req[p].pc = "call" /\ req[p].op = "addorg"
    /\ IF ~Configured(sigex) THEN NotConfigured(p) ELSE
       /\ UNCHANGED sigex
       /\ \E reply \in {Failed} \cup {Reply(TRUE, NULL, "NULL", sg) : sg \in SignIds \cup {NULL}} :
             LET r == Called(req[p], "addorg") IN
             Finish(p, r, reply, AddOrgRow(contracts[r.cid], r, reply), OutOf(reply))

\* res = sigex_post_json(...); sigex_operation_id = res["operationId"];
\* sigex_last_status = "qr_started"; commit
StartQrRowEager(row, r, reply) ==
    [row EXCEPT !.sigex_operation_id = IF reply.ok THEN Col(@, r.ldOp, reply.id) ELSE @,
                !.sigex_last_status = Col(@, r.ldStat, "qr_started")]

StartQrRow(row, r, reply) ==
    IF ~reply.ok THEN row
    ELSE [row EXCEPT !.sigex_operation_id = Col(@, r.ldOp, reply.id),
                     !.sigex_last_status = Col(@, r.ldStat, "qr_started")]

StartQrCall(p) ==
    /\ UNCHANGED <<items, trailerRows>>
    /\ req[p].pc = "call" /\ req[p].op = "startqr"
    /\ LET r == Called(req[p], "startqr") IN
       IF ~Configured(sigex) THEN NotConfigured(p) ELSE
       \/ \* requests raises; the service may have started the operation all the same
          /\ \/ UNCHANGED sigex
             \/ /\ sigex.ops < MaxRemote
                /\ sigex' = [sigex EXCEPT !.ops = @ + 1]
          /\ Finish(p, r, Failed, StartQrRow(contracts[r.cid], r, Failed), NoOut)
       \/ \* a reply without operationId: KeyError
          /\ sigex.ops < MaxRemote
          /\ sigex' = [sigex EXCEPT !.ops = @ + 1]
          /\ req' = [req EXCEPT ![p] = FinishedSig(r, "malformed", NoOut)]
          /\ UNCHANGED <<trailers, contracts>>
       \/ /\ sigex.ops < MaxRemote
          /\ sigex' = [sigex EXCEPT !.ops = @ + 1]
          /\ LET reply == Reply(TRUE, sigex.ops + 1, "NULL", NULL) IN
             Finish(p, r, reply, StartQrRow(contracts[r.cid], r, reply), OutOf(reply))

\* res = sigex_get_json(...); status = res.get("status"); sigex_last_status = status;
\* if status == "done": sigex_last_sign_id = res.get("signId"); commit
PollRowMerging(row, r, reply) ==
    IF ~reply.ok THEN row
    ELSE [row EXCEPT !.sigex_last_status = Col(@, r.ldStat, reply.status),
                     !.sigex_last_sign_id = IF reply.sign # NULL
                                            THEN Col(@, r.ldSign, reply.sign) ELSE @]

PollRow(row, r, reply) ==
    IF ~reply.ok THEN row
    ELSE [row EXCEPT !.sigex_last_status = Col(@, r.ldStat, reply.status),
                     !.sigex_last_sign_id = IF reply.status = "done"
                                            THEN Col(@, r.ldSign, reply.sign) ELSE @]

PollCall(p) ==
    /\ UNCHANGED <<items, trailerRows>>
    /\ req[p].pc = "call" /\ req[p].op = "poll"
    /\ IF ~Configured(sigex) THEN NotConfigured(p) ELSE
       /\ UNCHANGED sigex
       /\ \E reply \in {Failed} \cup {Reply(TRUE, NULL, st, sg) :
                                        st \in RemoteStatuses \cup {"NULL"},
                                        sg \in SignIds \cup {NULL}} :
             LET r == Called(req[p], "poll") IN
             Finish(p, r, reply, PollRow(contracts[r.cid], r, reply), OutOf(reply))

\* buildDDC: the card is returned, nothing is stored
DdcCall(p) ==
    /\ UNCHANGED <<items, trailerRows>>
    /\ req[p].pc = "call" /\ req[p].op = "ddc"
    /\ IF ~Configured(sigex) THEN NotConfigured(p) ELSE
       /\ UNCHANGED <<trailers, contracts, sigex>>
       /\ \E res \in {"ok", "upstream_error", "malformed"} :
             req' = [req EXCEPT ![p] = FinishedSig(Called(req[p], "ddc"), res, NoOut)]

SigOps == {"addorg", "startqr", "poll", "ddc"}

SigStep(p) ==
    \/ \E op \in SigOps, cid \in 1..MaxContracts, hasSignature \in BOOLEAN :
          SigLoad(p, op, cid, hasSignature)
    \/ AddOrgCall(p)
    \/ StartQrCall(p)
    \/ PollCall(p)
    \/ DdcCall(p)

(* --------------------------- specifications ---------------------------- *)

\* an installation with its trailers taken in and no contract yet
Init ==
    /\ items = <<BaseItem>>
    /\ trailers = [t \in TrailerIds |-> "IN_STOCK"]
    /\ trailerRows = RowsFor(trailers)
    /\ contracts = NoContracts
    /\ req = [p \in Procs |-> IdleReq]
    /\ sigex = NoRemote

\* contract requests and the sales import, interleaved at every store access
Next ==
    \E p \in Procs : CreateStep(p) \/ EditStep(p) \/ DeleteStep(p) \/ ImportStep(p)

Spec == Init /\ [][Next]_vars

\* submissions of the trailer form over the one-item nomenclature: the
\* characteristics of that item, with and without a jockey wheel and a tent
BaseForms ==
    {[size_body |-> "A", axle_count |-> 2, wheel_radius |-> "R13",
      board_height_mm |-> <<"5">>, has_jockey_wheel |-> jw, tent_height_mm |-> th] :
        jw \in {0, 1}, th \in {Unset, 60}}

\* the same handlers and the trailer forms, one request at a time
SeqNext ==
    \/ CreateStep(1)
    \/ EditStep(1)
    \/ DeleteStep(1)
    \/ ImportStep(1)
    \/ TrailerStep(1, BaseForms)

SeqSpec == Init /\ [][SeqNext]_vars

\* two contract_create requests for trailer 1, which has no contract and is
\* IN_STOCK; the other trailer is unsold or was sold by the import
RaceTrailer == 1

RaceInit ==
    /\ items = <<BaseItem>>
    /\ req = [p \in Procs |-> IdleReq]
    /\ sigex = NoRemote
    /\ \/ /\ trailers = [t \in TrailerIds |-> "IN_STOCK"]
          /\ contracts = NoContracts
       \/ /\ trailers = [t \in TrailerIds |-> IF t = RaceTrailer THEN "IN_STOCK" ELSE "SOLD"]
          /\ contracts = Insert(NoContracts, 1, NewContract(2, <<>>))
    /\ trailerRows = RowsFor(trailers)

RaceNext ==
    \E p \in Procs :
        \/ /\ req[p].pc = "idle"
           /\ \E num \in NumberInputs : CreateForm(p, RaceTrailer, num)
        \/ CreateCheck(p)
        \/ CreateNext(p)
        \/ CreateUnique(p)
        \/ CreateCommit(p)

RaceSpec == RaceInit /\ [][RaceNext]_vars

\* a sold trailer with its contract, not yet sent to the signing service
SigInit ==
    /\ items = <<BaseItem>>
    /\ trailers = [t \in TrailerIds |-> IF t = 1 THEN "SOLD" ELSE "IN_STOCK"]
    /\ trailerRows = RowsFor(trailers)
    /\ contracts = Insert(NoContracts, 1, NewContract(1, <<"1">>))
    /\ req = [p \in Procs |-> IdleReq]
    /\ sigex = NoRemote

\* the signing steps of the contract page, one request at a time
SigNext == PreregStep(1) \/ SigStep(1)

SigSpec == SigInit /\ [][SigNext]_vars

\* a nomenclature as import_items_from_matrix and the item forms leave it
MatchInit ==
    /\ items \in Catalogs
    /\ trailers = [t \in TrailerIds |-> "NONE"]
    /\ trailerRows = RowsFor(trailers)
    /\ contracts = NoContracts
    /\ req = [p \in Procs |-> IdleReq]
    /\ sigex = NoRemote

\* one submission of the trailer form; the matcher only reads the store, so
\* a second submission would meet the same nomenclature
MatchNext == \E sent \in Forms : FindItemForForm(1, sent)

MatchSpec == MatchInit /\ [][MatchNext]_vars

\* contract numbers found in the store: typed, imported (none), with letters
NumberModels ==
    {<<>>, <<"1">>, <<"2">>, <<"5">>, <<"7">>, <<"C", "N", "-", "1", "2">>, <<"A">>,
     <<"0", "9">>, <<"1", "a", "2">>}

\* the contract table with the given numbers, in id order
StoreOf(nums) == [c \in 1..Len(nums) |-> NewContract(NULL, nums[c])]

NumInit ==
    /\ items = <<BaseItem>>
    /\ trailers = [t \in TrailerIds |-> "IN_STOCK"]
    /\ trailerRows = RowsFor(trailers)
    /\ contracts \in {StoreOf(nums) : nums \in UNION {[1..n -> NumberModels] : n \in 0..MaxRows}}
    /\ req = [p \in Procs |-> IdleReq]
    /\ sigex = NoRemote

\* the contract form is opened on a store with these numbers
NumNext == CreateOpen(1)

NumSpec == NumInit /\ [][NumNext]_vars

\* the rows the nomenclatures of the trailer-form specification are made of
FormModels ==
    {BaseItem,
     [BaseItem EXCEPT !.axle_count = 1],
     [BaseItem EXCEPT !.has_jockey_wheel = "false"],
     [BaseItem EXCEPT !.has_tent = "true", !.tent_hight_mm = 60]}

\* the characteristics the trailer form is submitted with there
FormForms ==
    [ size_body        : {"A"},
      axle_count       : {1, 2},
      wheel_radius     : {"R13"},
      board_height_mm  : {<<"5">>},
      has_jockey_wheel : {0, 1},
      tent_height_mm   : {Unset, 60} ]

\* a nomenclature of two models and one trailer of the first model
FormInit ==
    /\ items \in [1..2 -> FormModels]
    /\ trailers = [t \in TrailerIds |-> IF t = 1 THEN "IN_STOCK" ELSE "NONE"]
    /\ trailerRows = RowsFor(trailers)
    /\ contracts = NoContracts
    /\ req = [p \in Procs |-> IdleReq]
    /\ sigex = NoRemote

\* the trailer forms, one request at a time
FormNext == TrailerStep(1, FormForms)

FormSpec == FormInit /\ [][FormNext]_vars

\* contract 1 as far as the signing has come: not registered, registered, or
\* with a QR operation started
SignedUpTo(n) ==
    [NewContract(1, <<"1">>) EXCEPT
        !.sigex_document_id  = IF n >= 1 THEN 1 ELSE NULL,
        !.sigex_operation_id = IF n >= 2 THEN 1 ELSE NULL,
        !.sigex_last_status  = IF n >= 2 THEN "qr_started" ELSE "NULL"]

\* the signing steps under every setting of the two mTLS variables of the client
ConfInit ==
    /\ items = <<BaseItem>>
    /\ trailers = [t \in TrailerIds |-> IF t = 1 THEN "SOLD" ELSE "IN_STOCK"]
    /\ trailerRows = RowsFor(trailers)
    /\ req = [p \in Procs |-> IdleReq]
    /\ \E n \in 0..2, crt \in EnvValues, key \in EnvValues :
          /\ contracts = Insert(NoContracts, 1, SignedUpTo(n))
          /\ sigex = [docs |-> IF n >= 1 THEN 1 ELSE 0, ops |-> IF n >= 2 THEN 1 ELSE 0,
                      crt |-> crt, key |-> key]

ConfSpec == ConfInit /\ [][SigNext]_vars

\* the contract rows of a store: on no trailer or on one, imported without a
\* number or numbered after their id
LifeRows(c) ==
    {NewContract(t, cn) : t \in {NULL} \cup TrailerIds, cn \in {<<>>, IntToStr(c)}}

LifeStores ==
    UNION {{cs \in [1..n -> UNION {LifeRows(c) : c \in 1..n}] :
               \A c \in 1..n : cs[c] \in LifeRows(c)} : n \in 0..MaxContracts}

\* every store the schema admits in which each trailer is SOLD exactly when one
\* contract references it
LifeInit ==
    /\ items = <<BaseItem>>
    /\ trailers \in [TrailerIds -> {"NONE", "IN_STOCK", "SOLD"}]
    /\ trailerRows = RowsFor(trailers)
    /\ contracts \in LifeStores
    /\ \A c \in Ids(contracts) :
          /\ UniqueTrailerOk(contracts, c, contracts[c].trailer_id)
          /\ contracts[c].trailer_id # NULL => trailers[contracts[c].trailer_id] # "NONE"
    /\ \A t \in TrailerIds :
          trailers[t] = "SOLD" <=> Referencing(contracts, t, NULL) # {}
    /\ req = [p \in Procs |-> IdleReq]
    /\ sigex = NoRemote

\* contract_create, contract_edit and contract_delete, one request at a time
LifeNext == CreateStep(1) \/ EditStep(1) \/ DeleteStep(1)

LifeSpec == LifeInit /\ [][LifeNext]_vars

\* submissions of the trailer form for the two models of the nomenclature below
RefForms ==
    {[size_body |-> "A", axle_count |-> ax, wheel_radius |-> "R13",
      board_height_mm |-> <<"5">>, has_jockey_wheel |-> 1, tent_height_mm |-> Unset] :
        ax \in {1, 2}}

\* two models, both trailers of the first one, no contract
RefInit ==
    /\ items = <<BaseItem, [BaseItem EXCEPT !.axle_count = 1]>>
    /\ trailers = [t \in TrailerIds |-> "IN_STOCK"]
    /\ trailerRows = RowsFor(trailers)
    /\ contracts = NoContracts
    /\ req = [p \in Procs |-> IdleReq]
    /\ sigex = NoRemote

\* the trailer forms, item_delete and the contract handlers (numbers left to the
\* application), one request at a time
RefNext ==
    \/ TrailerStep(1, RefForms)
    \/ \E i \in 1..MaxItems : ItemDelete(1, i)
    \/ \E tid \in TrailerIds : CreateForm(1, tid, <<>>)
    \/ CreateCheck(1)
    \/ CreateNext(1)
    \/ CreateUnique(1)
    \/ CreateCommit(1)
    \/ \E cid \in 1..MaxContracts, tid \in TrailerIds : EditForm(1, cid, tid, <<>>)
    \/ EditCheck(1)
    \/ EditCommit(1)
    \/ DeleteStep(1)

RefSpec == RefInit /\ [][RefNext]_vars

\* the signing steps and contract_edit on the contract page, one request at a time
SigEditNext == PreregStep(1) \/ SigStep(1) \/ EditStep(1)

SigEditSpec == SigInit /\ [][SigEditNext]_vars

\* the contract form opened, and submitted with a blank number, on a store with
\* these numbers
AutoNext ==
    \/ CreateOpen(1)
    \/ \E tid \in TrailerIds, num \in {<<>>, <<" ">>} : CreateForm(1, tid, num)
    \/ CreateCheck(1)
    \/ CreateNext(1)
    \/ CreateUnique(1)
    \/ CreateCommit(1)

AutoSpec == NumInit /\ [][AutoNext]_vars

\* two Preregister requests, interleaved at every remote call and store access;
\* contract 1 has no document id
PreRaceNext ==
    \E p \in Procs :
        \/ req[p].pc = "idle" /\ \E cid \in 1..MaxContracts : PreregLoad(p, cid)
        \/ PreregRegister(p)
        \/ PreregUpload(p)

PreRaceSpec == SigInit /\ [][PreRaceNext]_vars

(* ------------------------------- claims -------------------------------- *)

ContractsOf(t) == Referencing(contracts, t, NULL)

\* C1: for every trailer, status = SOLD if and only if exactly one contract
\* references it, in every state reachable through the application's operations
\* (refuted: the trailer forms store the status the user picks)
C1_StatusDerivation ==
    \A t \in TrailerIds :
        trailers[t] # "NONE" =>
            (trailers[t] = "SOLD" <=> Cardinality(ContractsOf(t)) = 1)

BothDone == \A p \in Procs : req[p].pc = "done"

Results == {req[p].res : p \in Procs}

\* both requests were submitted while the trailer was still offered by the form
BothArrivedFree == \A p \in Procs : req[p].res # "invalid_trailer"

RaceOutcome(rejections) ==
    (BothDone /\ BothArrivedFree) =>
        /\ \E p \in Procs : /\ req[p].res = "ok"
                            /\ \A q \in Procs \ {p} : req[q].res \in rejections
        /\ Cardinality(ContractsOf(RaceTrailer)) = 1
        /\ trailers[RaceTrailer] = "SOLD"

\* C2 as stated: of two interleaved Creates for the same free trailer exactly one
\* succeeds, the other ends with a conflict error, and the trailer ends SOLD with
\* exactly one contract
C2_RaceConflictOnly == RaceOutcome({"conflict_exists", "conflict_commit"})

\* C2 amended: of two interleaved Creates for the same free trailer exactly one
\* succeeds and the other is rejected with a handled error, which is a conflict
\* error or, when both carry or derive the same contract number, the
\* duplicate-number validation error; the trailer ends SOLD with exactly one
\* contract
C2_RaceOneWinner == RaceOutcome({"conflict_exists", "conflict_commit", "dup_number"})

C2_Witness == BothDone /\ Results = {"ok", "conflict_commit"}

\* C3: no two contracts have the same non-null trailer_id, under any interleaving
\* of Create, Edit, Delete and the sales import
C3_UniqueTrailer ==
    \A c \in Ids(contracts), d \in Ids(contracts) :
        (c # d /\ contracts[c].trailer_id # NULL) =>
            contracts[c].trailer_id # contracts[d].trailer_id

C3_Witness ==
    /\ Cardinality(Ids(contracts)) = 2
    /\ \E p \in Procs : req[p].res = "conflict_commit"

\* C4: a Create or Edit whose commit the uniqueness constraint rejects leaves the
\* store as it was: no contract added or changed, no trailer status changed
C4_RejectedCommitRollsBack ==
    [][\A p \in Procs :
          (req[p].pc \in {"c_commit", "e_commit"} /\ req'[p].res = "conflict_commit")
              => (trailers' = trailers /\ contracts' = contracts)]_vars

C4_Witness ==
    \E p \in Procs : req[p].op = "edit" /\ req[p].res = "conflict_commit"

\* C5: no two contracts have the same non-null contract_number, also after two
\* interleaved requests that both passed the application-level number check
\* (refuted: the store has no uniqueness constraint on contract_number)
C5_UniqueNumber ==
    \A c \in Ids(contracts), d \in Ids(contracts) :
        (c # d /\ contracts[c].contract_number # <<>>) =>
            contracts[c].contract_number # contracts[d].contract_number

SigningFields(row) ==
    <<row.sigex_document_id, row.sigex_operation_id,
      row.sigex_last_status, row.sigex_last_sign_id>>

\* a request of process p starts with this step
Starts(p, ops) == Free(p) /\ req'[p] # req[p] /\ req'[p].op \in ops

\* C6: Preregister on a contract whose document id is stored returns that id
\* without any remote call and changes nothing; a Preregister that succeeds made
\* one registration and one upload, or none, and returns the stored document id
C6_PreregIdempotent ==
    /\ [][\A p \in Procs, c \in Ids(contracts) :
             (Starts(p, {"prereg"}) /\ req'[p].cid = c
                 /\ contracts[c].sigex_document_id # NULL)
               => /\ req'[p].pc = "done" /\ req'[p].res = "ok"
                  /\ req'[p].out.id = contracts[c].sigex_document_id
                  /\ req'[p].calls = <<>>
                  /\ contracts' = contracts /\ sigex' = sigex]_vars
    /\ [](\A p \in Procs :
             (req[p].pc = "done" /\ req[p].op = "prereg" /\ req[p].res = "ok")
               => /\ req[p].calls \in {<<>>, <<"register", "upload">>}
                  /\ req[p].out.id = contracts[req[p].cid].sigex_document_id)

C6_Witness ==
    /\ req[1].pc = "done" /\ req[1].op = "prereg" /\ req[1].res = "ok"
    /\ req[1].calls = <<>>
    /\ req[1].out.id = 1 /\ sigex.docs = 1

\* C7: a signing step that ends with a failure of the remote call leaves every
\* contract, its four signing fields included, as it was before the step
C7_FailureKeepsFields ==
    [][\A p \in Procs :
          (req[p].pc \notin {"idle", "done"} /\ req'[p].pc = "done"
              /\ req'[p].res = "upstream_error")
            => contracts' = contracts]_vars

C7_Witness ==
    /\ req[1].pc = "done" /\ req[1].op = "startqr" /\ req[1].res = "upstream_error"
    /\ req[1].calls = <<"startqr">>
    /\ sigex.ops = 1
    /\ contracts[1].sigex_operation_id = NULL

\* the identifiers a step requires are not all stored
MissingIds(op, row) ==
    \/ row.sigex_document_id = NULL
    \/ op = "poll" /\ row.sigex_operation_id = NULL

\* C8: a signing step on a contract that lacks the identifiers the step requires
\* (the document id; for Poll also the operation id) ends with a precondition
\* error, makes no remote call and changes no field
C8_PreconditionGuards ==
    [][\A p \in Procs, c \in Ids(contracts) :
          (Starts(p, SigOps) /\ req'[p].cid = c /\ MissingIds(req'[p].op, contracts[c]))
            => /\ req'[p].pc = "done" /\ req'[p].res = "precondition"
               /\ req'[p].calls = <<>>
               /\ contracts' = contracts /\ sigex' = sigex]_vars

C8_Witness ==
    /\ req[1].pc = "done" /\ req[1].op = "poll" /\ req[1].res = "precondition"
    /\ contracts[1].sigex_document_id # NULL
    /\ contracts[1].sigex_operation_id = NULL

\* C9: a Poll whose remote call returns status s stores s as the last status,
\* replaces the last sign id by the returned one exactly when s is "done", and
\* leaves document id and operation id unchanged
C9_PollMirrorsRemote ==
    [][\A p \in Procs :
          (req[p].pc = "call" /\ req[p].op = "poll"
              /\ req'[p].res = "ok" /\ req'[p].out.status # "NULL")
            => LET c == req[p].cid
                   s == req'[p].out.status
               IN /\ contracts'[c].sigex_last_status = s
                  /\ contracts'[c].sigex_last_sign_id =
                        IF s = "done" THEN req'[p].out.sign
                        ELSE contracts[c].sigex_last_sign_id
                  /\ contracts'[c].sigex_document_id = contracts[c].sigex_document_id
                  /\ contracts'[c].sigex_operation_id = contracts[c].sigex_operation_id]_vars

C9_Witness ==
    /\ req[1].pc = "done" /\ req[1].op = "poll" /\ req[1].res = "ok"
    /\ req[1].out.status = "done" /\ req[1].out.sign = 2
    /\ contracts[1].sigex_last_status = "done"
    /\ contracts[1].sigex_last_sign_id = 2

\* position of a contract in UNREGISTERED, REGISTERED, ORG_SIGNED, QR_STARTED, DONE
Rank(row) ==
    IF row.sigex_document_id = NULL THEN 0
    ELSE CASE row.sigex_last_status = "done" -> 4
           [] row.sigex_last_status = "qr_started" -> 3
           [] row.sigex_last_status = "org_signed" -> 2
           [] row.sigex_last_status = "NULL" -> 1
           [] OTHER -> 3

\* C10: the signing state of a contract only advances; Add organization
\* signature and Start QR, the two steps that write a status of the
\* application's own, never move a contract back (not from QR_STARTED to
\* ORG_SIGNED, not out of DONE)
\* (refuted: both steps store their status whatever the stored one is)
C10_SigningOnlyAdvances ==
    [][\A p \in Procs :
          (req[p].pc = "call" /\ req[p].op \in {"addorg", "startqr"}
              /\ req[p].cid \in Ids(contracts))
            => Rank(contracts'[req[p].cid]) >= Rank(contracts[req[p].cid])]_vars

\* the requests that went through the matcher with a well-formed board height
Matched == {p \in Procs : req[p].op = "find" /\ req[p].res # "bad_board"}

\* the criteria say nothing about the tent, or the item is as the tent criterion
\* asks: 0 is "no tent" (has_tent false, or no height), h > 0 is a tent of height h
TentAsAsked(it, tent) ==
    \/ tent = Unset
    \/ tent = 0 /\ (it.has_tent = "false" \/ it.tent_hight_mm = NULL)
    \/ tent > 0 /\ it.has_tent = "true" /\ it.tent_hight_mm = tent

\* the item is an active TRAILER and equals every criterion that is supplied
Meets(it, cr) ==
    /\ it.item_type = "TRAILER" /\ it.is_active
    /\ cr.size_body = "" \/ it.size_body = cr.size_body
    /\ cr.axle_count = Unset \/ it.axle_count = cr.axle_count
    /\ cr.wheel_radius = "" \/ it.wheel_radius = cr.wheel_radius
    /\ cr.board_height_mm = <<>> \/ it.board_height_mm = StrToInt(cr.board_height_mm)
    /\ cr.has_jockey_wheel = Unset
          \/ it.has_jockey_wheel = (IF cr.has_jockey_wheel = 1 THEN "true" ELSE "false")
    /\ TentAsAsked(it, cr.tent_height_mm)

Meeting(cr) == {i \in DOMAIN items : Meets(items[i], cr)}

\* C11: if exactly one active TRAILER Item satisfies the filters of the criteria
\* the matcher returns it, if none does it returns NoMatch, and an Item it
\* returns equals every supplied criterion
C11_MatchUnique ==
    \A p \in Matched :
        LET S == Meeting(req[p].form) IN
        /\ Cardinality(S) = 1 => req[p].item \in S
        /\ S = {} => (req[p].item = NoMatch /\ req[p].res = "no_match")
        /\ req[p].item # NoMatch => req[p].item \in S

C11_Witness ==
    /\ req[1].op = "find" /\ req[1].res = "ok" /\ req[1].item = 2
    /\ Len(items) = 2
    /\ items[1].axle_count = 1
    /\ req[1].form.axle_count = 2
    /\ req[1].form.board_height_mm = <<"5">>

\* C12: with tent_height_mm = 0 the matcher only returns Items with has_tent
\* false or no tent height; with tent_height_mm = h > 0 only Items with has_tent
\* true and tent height h, so never an Item whose has_tent is unknown
C12_TentSentinel ==
    \A p \in Matched :
        req[p].item # NoMatch =>
            LET it == items[req[p].item]
                h == req[p].form.tent_height_mm
            IN /\ h = 0 => (it.has_tent = "false" \/ it.tent_hight_mm = NULL)
               /\ h > 0 => (it.has_tent = "true" /\ it.tent_hight_mm = h)

C12_Witness ==
    /\ req[1].op = "find" /\ req[1].item = 2
    /\ req[1].form.tent_height_mm = 60
    /\ Len(items) = 2
    /\ items[1] = [BaseItem EXCEPT !.has_tent = "unknown", !.tent_hight_mm = 60]
    /\ items[2] = [BaseItem EXCEPT !.has_tent = "true", !.tent_hight_mm = 60]

\* the contracts other than c are as they were
OthersKept(c) ==
    \A d \in Ids(contracts) \ {c} : d \in Ids(contracts') /\ contracts'[d] = contracts[d]

\* C13: Delete removes the contract; the trailer it referenced is IN_STOCK
\* afterwards if no contract references it any more and keeps its status
\* otherwise; no other trailer's status and no other contract changes
C13_DeleteReverts ==
    [][\A p \in Procs :
          (req[p].pc = "d_commit" /\ req'[p].res = "ok")
            => LET c == req[p].cid
                   t == contracts[c].trailer_id
               IN /\ c \notin Ids(contracts')
                  /\ OthersKept(c)
                  /\ trailers'[t] = IF Referencing(contracts', t, NULL) = {}
                                    THEN "IN_STOCK" ELSE trailers[t]
                  /\ \A u \in TrailerIds \ {t} : trailers'[u] = trailers[u]]_vars

C13_Witness ==
    /\ req[1].op = "delete" /\ req[1].res = "ok"
    /\ Ids(contracts) = {2}
    /\ trailers[contracts[2].trailer_id] = "SOLD"
    /\ \A t \in TrailerIds \ {contracts[2].trailer_id} : trailers[t] = "IN_STOCK"

\* C14: after a successful Edit the contract references the selected trailer B
\* and B is SOLD; when B differs from the previous trailer A, A is IN_STOCK if no
\* contract references it any more and keeps its status otherwise
C14_EditMovesStatus ==
    [][\A p \in Procs :
          (req[p].pc = "e_commit" /\ req'[p].res = "ok")
            => LET c == req[p].cid
                   A == contracts[c].trailer_id
                   B == req[p].tid
               IN /\ contracts'[c].trailer_id = B
                  /\ trailers'[B] = "SOLD"
                  /\ OthersKept(c)
                  /\ A # B =>
                        trailers'[A] = IF Referencing(contracts', A, NULL) = {}
                                       THEN "IN_STOCK" ELSE trailers[A]
                  /\ \A u \in TrailerIds \ {A, B} : trailers'[u] = trailers[u]]_vars

C14_Witness ==
    /\ req[1].op = "edit" /\ req[1].res = "ok" /\ req[1].setOld
    /\ contracts[1].trailer_id = 2
    /\ trailers[1] = "IN_STOCK" /\ trailers[2] = "SOLD"

StoreKept == trailers' = trailers /\ contracts' = contracts

\* some contract, whichever, holds the number the form carries
HeldByAny(num) ==
    NormStr(num) # <<>> /\ \E d \in Ids(contracts) : contracts[d].contract_number = NormStr(num)

\* the Edit of contract cid selects a trailer that a different contract references
OntoTaken(cid, tid) ==
    /\ tid # contracts[cid].trailer_id
    /\ \E d \in Ids(contracts) \ {cid} : contracts[d].trailer_id = tid

\* C15 as stated: an Edit that reassigns a contract to a trailer already referenced
\* by a different contract fails with the conflict error and leaves contracts and
\* trailer statuses unchanged
C15_ReassignConflict ==
    [][\A cid \in Ids(contracts), tid \in TrailerIds, num \in NumberInputs :
          (EditForm(1, cid, tid, num) /\ OntoTaken(cid, tid))
            => (req'[1].res = "conflict_exists" /\ StoreKept)]_vars

\* C15 amended: an Edit that reassigns a contract to a trailer already referenced
\* by a different contract fails and leaves contracts and trailer statuses
\* unchanged; the error is the number validation error when the submitted number
\* is held by any contract, the edited one included, and the conflict error
\* otherwise
C15_ReassignRejected ==
    [][\A cid \in Ids(contracts), tid \in TrailerIds, num \in NumberInputs :
          (EditForm(1, cid, tid, num) /\ OntoTaken(cid, tid))
            => /\ req'[1].pc = "done"
               /\ req'[1].res = IF HeldByAny(num) THEN "dup_number" ELSE "conflict_exists"
               /\ StoreKept]_vars

C15_Witness ==
    /\ req[1].op = "edit" /\ req[1].res = "conflict_exists"
    /\ Cardinality(Ids(contracts)) = 2
    /\ \A t \in TrailerIds : trailers[t] = "SOLD"

\* C16: a Create for a trailer that a contract already references, or whose
\* status is SOLD, is rejected (by the form, which does not offer a SOLD trailer,
\* by the contract-exists guard or by the SOLD guard), adds no contract and
\* changes no trailer status
C16_CreateRejected ==
    [][/\ \A tid \in TrailerIds, num \in NumberInputs :
             (CreateForm(1, tid, num) /\ trailers[tid] = "SOLD")
               => (req'[1].pc = "done" /\ req'[1].res = "invalid_trailer" /\ StoreKept)
       /\ \A tid \in TrailerIds, num \in NumberInputs :
             (CreateForm(1, tid, num) /\ Referencing(contracts, tid, NULL) # {})
               => (req'[1].pc \in {"done", "c_check"} /\ StoreKept)
       /\ (req[1].pc = "c_check"
             /\ (Referencing(contracts, req[1].tid, NULL) # {}
                   \/ trailers[req[1].tid] = "SOLD"))
            => /\ req'[1].pc = "done"
               /\ req'[1].res \in {"conflict_exists", "invalid_sold"}
               /\ StoreKept]_vars

C16_Witness ==
    /\ req[1].op = "create" /\ req[1].res = "conflict_exists"
    /\ \E t \in TrailerIds : trailers[t] = "IN_STOCK" /\ Referencing(contracts, t, NULL) # {}

\* a contract other than c holds number n
HeldByOther(n, c) == \E d \in Ids(contracts) \ {c} : contracts[d].contract_number = n

\* C17: a Create or Edit with a non-blank number n is turned away by the number
\* check exactly when a contract other than the edited one holds n (so an Edit
\* that re-submits the contract's own number passes), and a request turned away
\* changes nothing
\* (refuted: the form of contract_edit validates the number against every
\* contract, the edited one included)
C17_NumberCheck ==
    [][/\ \A tid \in TrailerIds, num \in NumberInputs :
             (CreateForm(1, tid, num) /\ trailers[tid] = "IN_STOCK" /\ NormStr(num) # <<>>)
               => (req'[1].res = "dup_number" <=> HeldByOther(NormStr(num), NULL))
       /\ \A cid \in Ids(contracts), tid \in TrailerIds, num \in NumberInputs :
             (EditForm(1, cid, tid, num) /\ trailers[tid] # "NONE" /\ NormStr(num) # <<>>)
               => (req'[1].res = "dup_number" <=> HeldByOther(NormStr(num), cid))
       /\ req'[1].res = "dup_number" /\ req[1].pc # "done" => StoreKept]_vars

\* the characters of s that are decimal digits, in order
KeepDigits(s) ==
    SelectSeq(s, LAMBDA ch : ch \in {"0", "1", "2", "3", "4", "5", "6", "7", "8", "9"})

\* the integer a digit string denotes
ValueOf(s) ==
    LET digit(ch) == CHOOSE d \in 0..9 :
                        <<"0", "1", "2", "3", "4", "5", "6", "7", "8", "9">>[d + 1] = ch
        v[i \in 0..Len(s)] == IF i = 0 THEN 0 ELSE 10 * v[i - 1] + digit(s[i])
    IN  v[Len(s)]

\* 1 + the largest integer among the numbers that contain a digit, or 1
ExpectedNext ==
    LET S == {ValueOf(KeepDigits(contracts[c].contract_number)) :
                c \in {d \in Ids(contracts) :
                         KeepDigits(contracts[d].contract_number) # <<>>}}
    IN  IF S = {} THEN 1 ELSE 1 + (CHOOSE m \in S : \A n \in S : n <= m)

\* s is the decimal string of n
IsDecimalOf(s, n) ==
    /\ s # <<>> /\ KeepDigits(s) = s
    /\ (Len(s) > 1 => s[1] # "0")
    /\ ValueOf(s) = n

\* C18: get_next_contract_number returns the decimal string of 1 + the largest
\* integer formed by the digits of an existing number that contains a digit, or
\* "1" when no existing number contains a digit
C18_NextNumber ==
    \A p \in Procs :
        req[p].op = "open" => IsDecimalOf(req[p].cn, ExpectedNext)

C18_Witness ==
    /\ req[1].op = "open"
    /\ {contracts[c].contract_number : c \in Ids(contracts)}
          = {<<"5">>, <<"C", "N", "-", "1", "2">>, <<"7">>}
    /\ req[1].cn = <<"1", "3">>

\* empty or whitespace only
Blank(s) == \A i \in 1..Len(s) : s[i] = " "

\* C19: a Create with a blank (empty or whitespace-only) number takes the
\* auto-derived number of the contract numbers then in the store, and the
\* contract a successful Create adds carries the request's number, never a blank
C19_BlankGetsNumber ==
    [][/\ (req[1].pc = "c_check" /\ req'[1].pc # "done")
            => IF Blank(req[1].num) THEN req'[1].pc = "c_next"
               ELSE req'[1].pc = "c_unique" /\ ~Blank(req'[1].cn)
       /\ req[1].pc = "c_next"
            => (req'[1].pc = "c_unique" /\ IsDecimalOf(req'[1].cn, ExpectedNext))
       /\ (req[1].pc = "c_commit" /\ req'[1].res = "ok")
            => /\ ~Blank(req[1].cn)
               /\ \E c \in Ids(contracts') \ Ids(contracts) :
                     contracts'[c].contract_number = req[1].cn]_vars

C19_Witness ==
    /\ req[1].op = "create" /\ req[1].res = "ok"
    /\ \E c \in Ids(contracts) : contracts[c].contract_number = <<"2">>

\* the submitted criteria with an absent tent height read as 0
AsRead(sent) == [sent EXCEPT !.tent_height_mm = IF @ = Unset THEN 0 ELSE @]

\* C20 as stated: an absent size_body, axle_count, wheel_radius, board_height_mm
\* or tent_height_mm places no restriction: when an active TRAILER Item satisfies
\* the supplied criteria the matcher returns such an Item
C20_AbsentIsWildcard ==
    \A p \in Matched :
        (req[p].sent.has_jockey_wheel # Unset /\ Meeting(req[p].sent) # {})
            => req[p].item \in Meeting(req[p].sent)

\* C20 amended: an absent size_body, axle_count, wheel_radius or board_height_mm
\* places no restriction; an absent tent_height_mm is read as 0, "no tent": when
\* an active TRAILER Item satisfies the criteria so read the matcher returns such
\* an Item
C20_AbsentPlainIsWildcard ==
    \A p \in Matched :
        (req[p].sent.has_jockey_wheel # Unset /\ Meeting(AsRead(req[p].sent)) # {})
            => req[p].item \in Meeting(AsRead(req[p].sent))

C20_Witness ==
    /\ req[1].op = "find" /\ req[1].item = 1
    /\ req[1].sent.size_body = "" /\ req[1].sent.axle_count = Unset
    /\ req[1].sent.tent_height_mm = Unset /\ req[1].sent.has_jockey_wheel = 1
    /\ items = <<[BaseItem EXCEPT !.size_body = "B"]>>


\* the Trailer table is as it was: no row added, no column of a row changed
TrailersKept == trailers' = trailers /\ trailerRows' = trailerRows

\* the trailer-form requests that passed validation and reached the matcher
Submitted == {p \in Procs : /\ req[p].op \in {"trailer_create", "trailer_edit"}
                            /\ req[p].res \notin {"invalid", "not_found"}}

\* C21: a trailer creation or trailer edit whose matcher finds no Item ends with
\* a validation error shown on the form (never a fault) and leaves the Trailer
\* table unchanged: no Trailer is created, and VIN, warehouse, date, status and
\* item of the edited Trailer stay as they were
C21_NoMatchKeepsStore ==
    /\ [](\A p \in Submitted : Meeting(req[p].form) = {} <=> req[p].res = "no_match")
    /\ [][\A p \in Procs :
             (req'[p] # req[p] /\ req'[p].res = "no_match")
               => /\ req'[p].op \in {"trailer_create", "trailer_edit"}
                  /\ req'[p].pc = "done"
                  /\ TrailersKept]_vars

C21_Witness ==
    /\ req[1].op = "trailer_edit" /\ req[1].res = "no_match"
    /\ trailerRows[1] = InitRow(1) /\ trailers[1] = "SOLD"
    /\ Len(items) = 2 /\ items[2].axle_count = 1

\* C22: a Preregister that fails before the document id is stored (at the
\* registration call, at the rendering of the PDF or at the upload of the body)
\* leaves sigex_document_id unset and the contract as it was; a Preregister
\* that then succeeds stores and returns the id its own registration was given,
\* the latest the service assigned, never that of an abandoned document
C22_FailedPreregStoresNothing ==
    [][\A p \in Procs :
          (req[p].op = "prereg" /\ req[p].pc \in {"p_register", "p_upload"}
              /\ req'[p].pc = "done")
            => LET c == req[p].cid IN
               IF req'[p].res = "ok"
               THEN /\ contracts[c].sigex_document_id = NULL
                    /\ contracts'[c].sigex_document_id = sigex'.docs
                    /\ req'[p].out.id = sigex'.docs
               ELSE /\ contracts' = contracts
                    /\ contracts[c].sigex_document_id = NULL]_vars

C22_Witness ==
    /\ req[1].op = "prereg" /\ req[1].res = "ok"
    /\ req[1].calls = <<"register", "upload">>
    /\ sigex.docs = 2
    /\ contracts[1].sigex_document_id = 2

\* the step of p is a remote call that was answered, and the answer lacks the
\* field the step reads: status for the poll, signId for the organization
\* signature, operationId for the QR start, documentId for the registration
AnsweredWithoutField(p) ==
    /\ req[p].pc \in {"call", "p_register"} /\ req'[p].pc = "done"
    /\ req'[p].calls # req[p].calls
    /\ req'[p].res # "upstream_error"
    /\ CASE req[p].op = "poll"    -> req'[p].out.status = "NULL"
         [] req[p].op = "addorg"  -> req'[p].out.sign = NULL
         [] req[p].op = "startqr" -> req'[p].out.id = NULL
         [] req[p].op = "prereg"  -> req'[p].out.id = NULL
         [] OTHER -> FALSE

\* C23: a reply of the remote service that lacks the expected field ends the
\* step with a failure and is not absorbed: no contract changes, so neither
\* sigex_last_status nor sigex_last_sign_id is overwritten with an empty value
\* and the signing state does not advance
\* (refuted: the poll and the organization signature read the field with
\* res.get, store the missing value and answer as a success)
C23_MalformedSurfaced ==
    [][\A p \in Procs :
          AnsweredWithoutField(p)
            => (req'[p].res = "malformed" /\ contracts' = contracts)]_vars

\* C24: when SIGEX_MTLS_CRT or SIGEX_MTLS_KEY is unset or blank, a signing step
\* that comes to call a helper of the client ends with the not-configured error,
\* no request having been sent, and no contract and nothing at the service
\* changes
C24_NotConfiguredFailsFast ==
    [][\A p \in Procs :
          (/\ req[p].pc \in {"p_register", "call"}
           /\ req'[p] # req[p]
           /\ \/ NormStr(IF sigex.crt.set THEN sigex.crt.chars ELSE <<>>) = <<>>
              \/ NormStr(IF sigex.key.set THEN sigex.key.chars ELSE <<>>) = <<>>)
            => /\ req'[p].pc = "done" /\ req'[p].res = "not_configured"
               /\ req'[p].calls = <<>>
               /\ contracts' = contracts /\ sigex' = sigex]_vars

C24_Witness ==
    /\ req[1].op = "poll" /\ req[1].res = "not_configured"
    /\ sigex.crt = EnvOf(<<"p">>) /\ sigex.key = EnvOf(<<" ">>)
    /\ contracts[1].sigex_last_status = "qr_started"

\* the number of contracts on trailer t
Holders(t) == Cardinality({c \in Ids(contracts) : contracts[c].trailer_id = t})

\* C25: started in a store where every trailer is SOLD if and only if exactly
\* one contract references it, contract Create, Edit and Delete requests that
\* run one after the other, accepted or rejected, only lead to stores where
\* that still holds
C25_LifecycleKeepsDerivation ==
    \A t \in TrailerIds :
        /\ trailers[t] = "SOLD" => Holders(t) = 1
        /\ trailers[t] = "IN_STOCK" => Holders(t) = 0
        /\ trailers[t] = "NONE" => Holders(t) = 0

C25_Witness ==
    /\ req[1].op = "delete" /\ req[1].res = "ok"
    /\ Ids(contracts) = {1}
    /\ contracts[1].trailer_id = NULL
    /\ trailers = [t \in TrailerIds |-> "IN_STOCK"]

\* nothing in the store changes
AllKept == <<trailers, trailerRows, contracts, items>>' = <<trailers, trailerRows, contracts, items>>

\* C26: a delete of a Trailer that a SalesContract references, and a delete of
\* an Item that a Trailer references, is refused and changes nothing; so under
\* sequential operations every non-null trailer_id of a contract names an
\* existing Trailer and every item_id of a Trailer names an existing Item
C26_ReferentialIntegrity ==
    /\ [](/\ \A c \in Ids(contracts) :
               contracts[c].trailer_id # NULL => trailers[contracts[c].trailer_id] # "NONE"
          /\ \A t \in TrailerIds :
               trailers[t] # "NONE" => trailerRows[t].item_id \in DOMAIN items)
    /\ [][/\ \A t \in TrailerIds, m \in {NULL} \cup Warehouses :
                (TrailerDelete(1, t, m) /\ Holders(t) > 0)
                  => (req'[1].res \in {"refused", "forbidden"} /\ AllKept)
          /\ \A i \in DOMAIN items :
                (ItemDelete(1, i) /\ \E t \in TrailerIds : trailerRows[t].item_id = i)
                  => (req'[1].res = "refused" /\ AllKept)]_vars

C26_Witness ==
    /\ req[1].op = "item_delete" /\ req[1].res = "refused"
    /\ DOMAIN items = {2}
    /\ trailerRows[1].item_id = 2 /\ trailers[2] = "NONE"
    /\ \E c \in Ids(contracts) : contracts[c].trailer_id = 1

\* C27: every Item the form matcher returns is an active TRAILER item whose
\* has_jockey_wheel is true when the form says 1 and false when it says 0; an
\* Item whose has_jockey_wheel is unknown is returned for neither choice
C27_FixedFiltersApplied ==
    \A p \in Procs :
        (req[p].op = "find" /\ req[p].item # NoMatch) =>
            LET it == items[req[p].item]
                jw == req[p].form.has_jockey_wheel
            IN /\ it.item_type = "TRAILER"
               /\ it.is_active = TRUE
               /\ jw \in {0, 1}
               /\ jw = 1 => it.has_jockey_wheel = "true"
               /\ jw = 0 => it.has_jockey_wheel = "false"
               /\ it.has_jockey_wheel # "unknown"

C27_Witness ==
    /\ req[1].op = "find" /\ req[1].item = 2
    /\ req[1].form.has_jockey_wheel = 0
    /\ Len(items) = 2
    /\ items[1] = [BaseItem EXCEPT !.has_jockey_wheel = "unknown"]
    /\ items[2] = [BaseItem EXCEPT !.has_jockey_wheel = "false"]

\* C28: under signing steps and contract edits in any order, a contract with a
\* stored sigex_operation_id has a stored sigex_document_id, and a stored
\* sigex_document_id is never cleared or replaced by another value
C28_DocumentIdIsStable ==
    /\ [](\A c \in Ids(contracts) :
             contracts[c].sigex_operation_id # NULL => contracts[c].sigex_document_id # NULL)
    /\ [][\A c \in Ids(contracts) :
             contracts[c].sigex_document_id # NULL
               => /\ c \in Ids(contracts')
                  /\ contracts'[c].sigex_document_id = contracts[c].sigex_document_id]_vars

C28_Witness ==
    /\ req[1].op = "edit" /\ req[1].res = "ok"
    /\ contracts[1].trailer_id = 2
    /\ contracts[1].sigex_document_id = 1
    /\ contracts[1].sigex_operation_id = 2
    /\ sigex.docs = 1

\* no contract of the store carries number cn
NotInStore(cn) == \A c \in Ids(contracts) : contracts[c].contract_number # cn

\* C29: whatever the numbers in the store, the number get_next_contract_number
\* returns is the number of no contract; so a Create with a blank number that
\* runs alone passes the is_contract_number_unique check with the number it
\* derived
C29_AutoNumberIsFree ==
    /\ [](\A p \in Procs : req[p].op = "open" => NotInStore(req[p].cn))
    /\ [][/\ req[1].pc = "c_next" => (req'[1].pc = "c_unique" /\ NotInStore(req'[1].cn))
          /\ req[1].pc = "c_unique" => req'[1].pc = "c_commit"]_vars

C29_Witness ==
    /\ req[1].op = "create" /\ req[1].res = "ok"
    /\ Cardinality(Ids(contracts)) = 2
    /\ contracts[1].contract_number = <<"1">>
    /\ contracts[2].contract_number = <<"2">>

\* C30: when two interleaved Preregister requests on a contract without a
\* document id have both been answered, the service has registered at most one
\* document and each caller was given the document id the contract now stores
\* (refuted: both requests read the column before either stores it, both
\* register, and the later commit replaces the id returned to the other caller)
C30_PreregRaceOneDocument ==
    (\A p \in Procs : /\ req[p].pc = "done" /\ req[p].op = "prereg"
                      /\ req[p].cid = 1 /\ req[p].res = "ok")
        => /\ sigex.docs <= 1
           /\ \A p \in Procs : req[p].out.id = contracts[1].sigex_document_id
====
